---- MODULE Spec2Model ----
(***************************************************************************)
(* Model of sudoku.py: solve(sudoku) builds one integer variable per input *)
(* digit, posts an AllDifferent constraint per line, column and block, and *)
(* asks the constraint solver for the first solution of a depth-first      *)
(* search that branches on the first unbound variable with its minimum    *)
(* value.                                                                  *)
(*                                                                         *)
(* Python lists are functions on 0..n-1; the empty list is << >>.          *)
(* A solver variable is identified by its index in solver_vars and its    *)
(* state is its current domain, a set of integers.                         *)
(***************************************************************************)
EXTENDS Integers, Sequences, FiniteSets, TLC

VARIABLES
  pc,           \* position in solve()
  sudoku,       \* the argument of solve()
  solver_vars,  \* current domain of every IntVar, by index
  constraints,  \* the sections handed to solver.AllDifferent, in order
  stack,        \* the search's open choice points, innermost last
  failed,       \* the solver's current branch has failed
  solution,     \* what find_solution returns
  result,       \* what solve returns
  error         \* the exception that left solve(), or "None"

vars == << pc, sudoku, solver_vars, constraints, stack, failed, solution,
           result, error >>

\* ------------------------------------------------------------ constants

BLOCK_SIZE == 3

PUZZLE_SIZE == BLOCK_SIZE * BLOCK_SIZE

\* ------------------------------------------------------------ bounds

\* Cells of a full grid that an input may have blanked, at most.
MaxBlanks == 4

\* ------------------------------------------------------------ lists

EmptyList == << >>

len(l) == Cardinality(DOMAIN l)

FromSeq(s) == [i \in 0..(Len(s) - 1) |-> s[i + 1]]

Min2(a, b) == IF a < b THEN a ELSE b

Max2(a, b) == IF a > b THEN a ELSE b

\* l[a:b] for 0 <= a <= b: the slice is cut at the end of the list.
Slice(l, a, b) ==
  LET n == Max2(Min2(b, len(l)) - a, 0)
  IN  [k \in 0..(n - 1) |-> l[a + k]]

\* l1 + l2
Concat(l1, l2) ==
  [k \in 0..(len(l1) + len(l2) - 1) |->
     IF k < len(l1) THEN l1[k] ELSE l2[k - len(l1)]]

Elems(l) == {l[k] : k \in DOMAIN l}

\* ------------------------------------------------------------ solver variables

\* Faulty variant: the lower bound is dropped, IntVar(1, hi).
IntVar_from_one(lo, hi) == 1..hi

\* solver.IntVar(lo, hi, name): a variable with domain lo..hi.
IntVar(lo, hi) == lo..hi

\* Faulty variant: the givens are ignored, every variable ranges over 1..PUZZLE_SIZE.
create_solver_vars_unfixed(s) == [i \in DOMAIN s |-> 1..PUZZLE_SIZE]

\* create_solver_vars: a given digit fixes its variable, 0 leaves 1..PUZZLE_SIZE.
create_solver_vars(s) ==
  [i \in DOMAIN s |->
     IF s[i] # 0 THEN IntVar(s[i], s[i]) ELSE IntVar(1, PUZZLE_SIZE)]

\* ------------------------------------------------------------ constraints

\* lines = [solver_vars[i:i + PUZZLE_SIZE] for i in range(0, PUZZLE_SIZE ** 2, PUZZLE_SIZE)]
\* (the variables are named by their indices)
lines(sv) ==
  LET ids == [i \in DOMAIN sv |-> i]
  IN  [k \in 0..(PUZZLE_SIZE - 1) |->
         Slice(ids, k * PUZZLE_SIZE, k * PUZZLE_SIZE + PUZZLE_SIZE)]

\* Faulty variant: the transposition is missing, rows are the lines again.
rows_untransposed(ls) == ls

\* rows = zip(*lines): as many tuples as the shortest line has elements.
rows(ls) ==
  LET shortest == CHOOSE m \in {len(ls[k]) : k \in DOMAIN ls} :
                    \A k \in DOMAIN ls : m <= len(ls[k])
  IN  [x \in 0..(shortest - 1) |-> [k \in DOMAIN ls |-> ls[k][x]]]

\* itertools.product(range(0, PUZZLE_SIZE, BLOCK_SIZE), repeat=2), first
\* component slowest.
block_coords ==
  [b \in 0..(BLOCK_SIZE * BLOCK_SIZE - 1) |->
     << BLOCK_SIZE * (b \div BLOCK_SIZE), BLOCK_SIZE * (b % BLOCK_SIZE) >>]

\* Faulty variant: y does not advance, a block is three cells of one line.
block_cells_flat(block_x, block_y) ==
  [k \in 0..(BLOCK_SIZE * BLOCK_SIZE - 1) |->
     << block_x + (k \div BLOCK_SIZE), block_y >>]

\* The (x, y) pairs of one block, x slowest:
\* product(range(block_x, block_x + BLOCK_SIZE), range(block_y, block_y + BLOCK_SIZE))
block_cells(block_x, block_y) ==
  [k \in 0..(BLOCK_SIZE * BLOCK_SIZE - 1) |->
     << block_x + (k \div BLOCK_SIZE), block_y + (k % BLOCK_SIZE) >>]

\* lines[y][x] raises IndexError when a line is too short.
blocks_raise(ls) ==
  \E b \in DOMAIN block_coords :
    \E k \in DOMAIN block_cells(block_coords[b][1], block_coords[b][2]) :
      LET xy == block_cells(block_coords[b][1], block_coords[b][2])[k]
      IN  xy[1] \notin DOMAIN ls[xy[2]]

blocks(ls) ==
  [b \in DOMAIN block_coords |->
     LET cells == block_cells(block_coords[b][1], block_coords[b][2])
     IN  [k \in DOMAIN cells |-> ls[cells[k][2]][cells[k][1]]]]

\* Faulty variant: only the lines are constrained.
create_constraints_lines_only(sv) ==
  [k \in 0..(PUZZLE_SIZE - 1) |->
     [x \in 0..(PUZZLE_SIZE - 1) |-> k * PUZZLE_SIZE + x]]

\* itertools.chain(lines, rows, blocks)
create_constraints(sv) ==
  Concat(Concat(lines(sv), rows(lines(sv))), blocks(lines(sv)))

\* ------------------------------------------------------------ propagation
\* The solver's AllDifferent is modelled by its value propagation. The library
\* may prune further values that no solution holds; that shortens the search
\* and changes neither whether a solution is found nor which one is found first.

IsBound(d) == Cardinality(d) = 1

Failed(sv) == \E i \in DOMAIN sv : sv[i] = {}

\* The values of the bound variables of a section leave the domains of the
\* section's other variables.
Prune(sv, cells, bound) ==
  [i \in DOMAIN sv |->
     IF i \in cells
     THEN sv[i] \ UNION {sv[j] : j \in bound \ {i}}
     ELSE sv[i]]

\* One propagation of AllDifferent(section).
\* (A value bound by \in {e} is computed once, however often it is read.)
AllDifferent(sv, section) ==
  CHOOSE r \in {Prune(sv, cb[1], cb[2]) :
                  cb \in {<<cells, {j \in cells : IsBound(sv[j])}>> :
                            cells \in {Elems(section)}}} : TRUE

\* The constraints cs[k], cs[k + 1], ... each propagated once, in order.
RECURSIVE PropagateFrom(_, _, _)
PropagateFrom(sv, cs, k) ==
  IF k \notin DOMAIN cs THEN sv
  ELSE CHOOSE r \in {PropagateFrom(next, cs, k + 1) :
                       next \in {AllDifferent(sv, cs[k])}} : TRUE

\* The solver propagates until nothing changes or a domain is empty.
RECURSIVE Propagate(_, _)
Propagate(sv, cs) ==
  CHOOSE r \in {IF next = sv \/ Failed(next) THEN next ELSE Propagate(next, cs) :
                  next \in {PropagateFrom(sv, cs, 0)}} : TRUE

\* ------------------------------------------------------------ search

Unbound(sv) == {i \in DOMAIN sv : ~IsBound(sv[i])}

\* Faulty variant: the last unbound variable is chosen.
ChooseLastUnbound(sv) ==
  CHOOSE i \in {j \in DOMAIN sv : Cardinality(sv[j]) # 1} :
    \A j \in {j \in DOMAIN sv : Cardinality(sv[j]) # 1} : i >= j

\* solver.CHOOSE_FIRST_UNBOUND
ChooseFirstUnbound(sv) ==
  CHOOSE i \in Unbound(sv) : \A j \in Unbound(sv) : i <= j

\* Faulty variant: the maximum value is tried first.
AssignMaxValue(d) == CHOOSE v \in d : \A w \in d : v >= w

\* solver.ASSIGN_MIN_VALUE
AssignMinValue(d) == CHOOSE v \in d : \A w \in d : v <= w

\* Faulty variant: the right branch is dropped, the variable is left without a value.
Refute_all(top) == [top.vars EXCEPT ![top.var] = {}]

\* The right branch of a choice point: the domains saved there, with the value
\* tried removed from the variable decided.
Refute(top) == [top.vars EXCEPT ![top.var] = @ \ {top.value}]

\* [var.Value() for var in solver_vars]
Values(sv) == [i \in DOMAIN sv |-> CHOOSE v \in sv[i] : TRUE]

\* ------------------------------------------------------------ inputs

ShiftGrid ==
  FromSeq(<< 1, 2, 3, 4, 5, 6, 7, 8, 9,
             4, 5, 6, 7, 8, 9, 1, 2, 3,
             7, 8, 9, 1, 2, 3, 4, 5, 6,
             2, 1, 4, 3, 6, 5, 8, 9, 7,
             3, 6, 5, 8, 9, 7, 2, 1, 4,
             8, 9, 7, 2, 1, 4, 3, 6, 5,
             5, 3, 1, 6, 4, 2, 9, 7, 8,
             6, 4, 2, 9, 7, 8, 5, 3, 1,
             9, 7, 8, 5, 3, 1, 6, 4, 2 >>)

Classic81 ==
  FromSeq(<< 5, 3, 0, 0, 7, 0, 0, 0, 0,
             6, 0, 0, 1, 9, 5, 0, 0, 0,
             0, 9, 8, 0, 0, 0, 0, 6, 0,
             8, 0, 0, 0, 6, 0, 0, 0, 3,
             4, 0, 0, 8, 0, 3, 0, 0, 1,
             7, 0, 0, 0, 2, 0, 0, 0, 6,
             0, 6, 0, 0, 0, 0, 2, 8, 0,
             0, 0, 0, 4, 1, 9, 0, 0, 5,
             0, 0, 0, 0, 8, 0, 0, 7, 9 >>)

ClassicSolution81 ==
  FromSeq(<< 5, 3, 4, 6, 7, 8, 9, 1, 2,
             6, 7, 2, 1, 9, 5, 3, 4, 8,
             1, 9, 8, 3, 4, 2, 5, 6, 7,
             8, 5, 9, 7, 6, 1, 4, 2, 3,
             4, 2, 6, 8, 5, 3, 7, 9, 1,
             7, 1, 3, 9, 2, 4, 8, 5, 6,
             9, 6, 1, 5, 3, 7, 2, 8, 4,
             2, 8, 7, 4, 1, 9, 6, 3, 5,
             3, 4, 5, 2, 8, 6, 1, 7, 9 >>)

\* The puzzle and the answer as the specification prints them: the last three
\* digits of each are missing.
Classic78 == Slice(Classic81, 0, len(Classic81) - BLOCK_SIZE)

ClassicSolution78 == Slice(ClassicSolution81, 0, len(ClassicSolution81) - BLOCK_SIZE)

CellCount == PUZZLE_SIZE * PUZZLE_SIZE

ZeroBoard == [i \in 0..(CellCount - 1) |-> 0]

\* Cell 0 = 5 and cell 1 = 5, the rest unknown.
Clash55 == [i \in 0..(CellCount - 1) |-> IF i \in {0, 1} THEN 5 ELSE 0]

\* Row 0 holds 1..6 and lacks 7, 8, 9 in three cells of one block; that block
\* holds a 7 in row 1. No two givens clash, and there is no completion.
PigeonHole ==
  [i \in 0..(CellCount - 1) |->
     IF i < 6 THEN i + 1 ELSE IF i = PUZZLE_SIZE + 6 THEN 7 ELSE 0]

\* ShiftGrid with the 1 at row 3, column 1 replaced by a 2.
AlteredGrid == [ShiftGrid EXCEPT ![3 * PUZZLE_SIZE + 1] = 2]

\* The cells an input may have blanked: cells 0, 1, 27, 28 hold 1 2 / 2 1 in
\* ShiftGrid, so blanking the four leaves two completions.
BlankCells == << 0, 1, 27, 28, 2, 40 >>

Blank(g, S) == [i \in DOMAIN g |-> IF i \in S THEN 0 ELSE g[i]]

BlankSets ==
  {S \in SUBSET {BlankCells[k] : k \in DOMAIN BlankCells} :
     Cardinality(S) <= MaxBlanks}

\* The classic puzzle without the givens of row 0: several completions, the
\* smallest of them not the classic solution.
ClassicRow0Blank == Blank(Classic81, 0..(PUZZLE_SIZE - 1))

WellFormedPuzzles ==
  {Blank(g, S) : g \in {ShiftGrid, AlteredGrid}, S \in BlankSets}
    \cup {ZeroBoard, Classic81, ClassicRow0Blank, ClassicSolution81, Clash55,
          PigeonHole}

MalformedPuzzles ==
  { Classic78,
    Slice(ZeroBoard, 0, CellCount - 1),
    Concat(ZeroBoard, FromSeq(<< 0 >>)),
    [ZeroBoard EXCEPT ![0] = 10],
    [Classic81 EXCEPT ![CellCount - 1] = -1] }

Puzzles == WellFormedPuzzles \cup MalformedPuzzles

\* ------------------------------------------------------------ solve()

Init ==
  /\ pc = "solve"
  /\ sudoku \in Puzzles
  /\ solver_vars = EmptyList
  /\ constraints = EmptyList
  /\ stack = << >>
  /\ failed = FALSE
  /\ solution = EmptyList
  /\ result = EmptyList
  /\ error = "None"

\* solver_vars = create_solver_vars(sudoku, solver)
CreateSolverVars ==
  /\ pc = "solve"
  /\ solver_vars' = create_solver_vars(sudoku)
  /\ pc' = "create_constraints"
  /\ UNCHANGED << sudoku, constraints, stack, failed, solution, result, error >>

\* create_constraints(solver_vars, solver)
CreateConstraints ==
  /\ pc = "create_constraints"
  /\ ~blocks_raise(lines(solver_vars))
  /\ constraints' = create_constraints(solver_vars)
  /\ pc' = "find_solution"
  /\ UNCHANGED << sudoku, solver_vars, stack, failed, solution, result, error >>

\* ... or the IndexError of lines[y][x] leaves create_constraints and solve.
CreateConstraintsRaises ==
  /\ pc = "create_constraints"
  /\ blocks_raise(lines(solver_vars))
  /\ error' = "IndexError"
  /\ pc' = "raised"
  /\ UNCHANGED << sudoku, solver_vars, constraints, stack, failed, solution,
                  result >>

\* solver.NewSearch(decision_builder); NextSolution() starts by propagating
\* the constraints on the initial domains.
NewSearch ==
  /\ pc = "find_solution"
  /\ \E sv \in {Propagate(solver_vars, constraints)} :
       /\ solver_vars' = sv
       /\ failed' = Failed(sv)
  /\ stack' = << >>
  /\ pc' = "next_solution"
  /\ UNCHANGED << sudoku, constraints, solution, result, error >>

\* One decision of the phase: the first unbound variable takes its minimum
\* value, the alternative is kept as a choice point, the constraints propagate.
Decide ==
  /\ pc = "next_solution"
  /\ ~failed
  /\ Unbound(solver_vars) # {}
  /\ \E var \in {ChooseFirstUnbound(solver_vars)} :
     \E value \in {AssignMinValue(solver_vars[var])} :
     \E sv \in {Propagate([solver_vars EXCEPT ![var] = {value}], constraints)} :
       /\ stack' = Append(stack, [vars |-> solver_vars, var |-> var,
                                  value |-> value])
       /\ solver_vars' = sv
       /\ failed' = Failed(sv)
  /\ UNCHANGED << pc, sudoku, constraints, solution, result, error >>

\* A failure returns to the innermost choice point, restores the domains of
\* that point and refutes its decision: the variable loses the value tried.
Backtrack ==
  /\ pc = "next_solution"
  /\ failed
  /\ stack # << >>
  /\ \E sv \in {Propagate(Refute(stack[Len(stack)]), constraints)} :
       /\ solver_vars' = sv
       /\ failed' = Failed(sv)
  /\ stack' = SubSeq(stack, 1, Len(stack) - 1)
  /\ UNCHANGED << pc, sudoku, constraints, solution, result, error >>

\* NextSolution() is true: return [var.Value() for var in solver_vars]
SolutionFound ==
  /\ pc = "next_solution"
  /\ ~failed
  /\ Unbound(solver_vars) = {}
  /\ solution' = Values(solver_vars)
  /\ pc' = "return"
  /\ UNCHANGED << sudoku, solver_vars, constraints, stack, failed, result,
                  error >>

\* NextSolution() is false: return []
SearchExhausted ==
  /\ pc = "next_solution"
  /\ failed
  /\ stack = << >>
  /\ solution' = EmptyList
  /\ pc' = "return"
  /\ UNCHANGED << sudoku, solver_vars, constraints, stack, failed, result,
                  error >>

\* Faulty variant: the fallback to the input is missing.
solution_only(sol, s) == sol

\* solution or sudoku: the empty list is false.
solution_or_sudoku(sol, s) == IF sol # EmptyList THEN sol ELSE s

\* return solution or sudoku
Return ==
  /\ pc = "return"
  /\ result' = solution_or_sudoku(solution, sudoku)
  /\ pc' = "done"
  /\ UNCHANGED << sudoku, solver_vars, constraints, stack, failed, solution,
                  error >>

Next ==
  \/ CreateSolverVars
  \/ CreateConstraints
  \/ CreateConstraintsRaises
  \/ NewSearch
  \/ Decide
  \/ Backtrack
  \/ SolutionFound
  \/ SearchExhausted
  \/ Return

Spec == Init /\ [][Next]_vars

\* solve() is one synchronous call: every step that can be taken is taken.
FairSpec == Spec /\ WF_vars(Next)

\* ------------------------------------------------------------ what a Sudoku is

Cells == 0..(CellCount - 1)

Digits == 1..PUZZLE_SIZE

RowGroup(r) == {r * PUZZLE_SIZE + c : c \in 0..(PUZZLE_SIZE - 1)}

ColGroup(c) == {i \in Cells : i % PUZZLE_SIZE = c}

BlockGroup(a, b) ==
  {i \in Cells : /\ (i \div PUZZLE_SIZE) \div BLOCK_SIZE = a
                 /\ (i % PUZZLE_SIZE) \div BLOCK_SIZE = b}

RowGroups == {RowGroup(r) : r \in 0..(PUZZLE_SIZE - 1)}

ColGroups == {ColGroup(c) : c \in 0..(PUZZLE_SIZE - 1)}

BlockGroups ==
  {BlockGroup(a, b) : a \in 0..(BLOCK_SIZE - 1), b \in 0..(BLOCK_SIZE - 1)}

Groups == RowGroups \cup ColGroups \cup BlockGroups

\* 81 digits in 0..9
WellFormed(s) == DOMAIN s = Cells /\ \A i \in Cells : s[i] \in 0..PUZZLE_SIZE

\* 81 values in 1..9, each group holding each of 1..9 exactly once
ValidGrid(g) ==
  /\ DOMAIN g = Cells
  /\ \A i \in Cells : g[i] \in Digits
  /\ \A G \in Groups : \A v \in Digits : Cardinality({i \in G : g[i] = v}) = 1

Agrees(g, s) == \A i \in DOMAIN s : s[i] # 0 => g[i] = s[i]

Blanks(s) == {i \in DOMAIN s : s[i] = 0}

PeersOf(i) == UNION {G \in Groups : i \in G} \ {i}

\* The digits no given of a peer of cell i excludes.
Candidates(s, i) == Digits \ {s[j] : j \in PeersOf(i)}

\* Every way to fill the cells T of s, one cell at a time, with a digit that no
\* peer holds at that time. Each valid completion of s is among them.
RECURSIVE Fillings(_, _)
FillCell(s, T, i) ==
  UNION {Fillings(t, T \ {i}) : t \in {[s EXCEPT ![i] = v] : v \in Candidates(s, i)}}

Fillings(s, T) ==
  IF T = {} THEN {s}
  ELSE UNION {FillCell(s, T, i) : i \in {CHOOSE j \in T : TRUE}}

\* All valid completions of s, by enumeration.
Completions(s) == {g \in Fillings(s, Blanks(s)) : ValidGrid(g)}

\* The inputs whose completions are enumerated.
Small(s) == Cardinality(Blanks(s)) <= len(BlankCells)

\* ShiftGrid with the 1 2 / 2 1 of cells 0, 1, 27, 28 exchanged.
SwappedGrid ==
  [i \in Cells |->
     IF i \in {0, 1, 3 * PUZZLE_SIZE, 3 * PUZZLE_SIZE + 1}
     THEN BLOCK_SIZE - ShiftGrid[i] ELSE ShiftGrid[i]]

KnownGrids == {ShiftGrid, SwappedGrid, ClassicSolution81}

\* Valid completions of s: all of them for a small s, those among KnownGrids
\* for the others.
KnownCompletions(s) ==
  IF Small(s) THEN Completions(s)
  ELSE {g \in KnownGrids : ValidGrid(g) /\ Agrees(g, s)}

GivensClash(s) ==
  \E G \in Groups : \E i, j \in G : i # j /\ s[i] # 0 /\ s[i] = s[j]

\* A group with a few blanks that cannot be filled.
DeadGroup(s) ==
  \E G \in Groups :
    /\ Cardinality(G \cap Blanks(s)) <= BLOCK_SIZE
    /\ Fillings(s, G \cap Blanks(s)) = {}

\* Sufficient for s to have no valid completion.
Unsolvable(s) ==
  \/ GivensClash(s)
  \/ DeadGroup(s)
  \/ Small(s) /\ Completions(s) = {}

LexLeq(a, b) ==
  \/ a = b
  \/ \E i \in Cells : a[i] < b[i] /\ \A j \in 0..(i - 1) : a[j] = b[j]

Terminated == pc \in {"done", "raised"}

Solved == pc = "done" /\ solution # EmptyList

\* ------------------------------------------------------------ claims

\* C1: whenever solve finds a solution for 81 digits in 0..9, the returned
\* sequence has 81 values in 1..9 and every row, column and 3x3 block holds
\* each of 1..9 exactly once.
C1_SolvedOutputValid ==
  (Solved /\ WellFormed(sudoku)) => ValidGrid(result)

\* A solution found with more than PUZZLE_SIZE decisions open.
C1_Witness ==
  /\ Solved /\ WellFormed(sudoku)
  /\ Len(stack) > PUZZLE_SIZE
  /\ ValidGrid(result)

\* C2: for 81 digits in 0..9, the value returned at every index whose input
\* digit is nonzero is that digit, solved or not.
C2_GivensKept ==
  (pc = "done" /\ WellFormed(sudoku)) =>
    \A i \in Cells : sudoku[i] # 0 => result[i] = sudoku[i]

\* A solved puzzle with givens and blanks.
C2_Witness ==
  /\ Solved /\ WellFormed(sudoku)
  /\ Blanks(sudoku) # {}
  /\ result # sudoku
  /\ \E i \in Cells : sudoku[i] # 0 /\ result[i] = sudoku[i]

\* C3: for 81 digits in 0..9 with no valid completion, solve raises nothing
\* and returns the input sequence itself.
C3_UnsolvableReturnsInput ==
  (WellFormed(sudoku) /\ Unsolvable(sudoku)) =>
    /\ error = "None"
    /\ pc # "raised"
    /\ pc = "done" => result = sudoku

\* The example of the claim, returned after the search failed.
C3_Witness ==
  /\ pc = "done" /\ sudoku = Clash55
  /\ failed /\ solution = EmptyList
  /\ result = Clash55

\* C4: a sequence whose length is not 81, or that holds a digit outside 0..9,
\* fails with InvalidPuzzleError and never returns a result.
C4_MalformedRejected ==
  (Terminated /\ ~WellFormed(sudoku)) =>
    (pc = "raised" /\ error = "InvalidPuzzleError")

\* C5: an input without zeros that is a valid completed Sudoku is returned
\* equal at every index.
C5_SolvedInputUnchanged ==
  (pc = "done" /\ WellFormed(sudoku) /\ Blanks(sudoku) = {} /\ ValidGrid(sudoku))
    => result = sudoku

\* A completed grid went through the solver and came back as its solution.
C5_Witness ==
  /\ Solved
  /\ sudoku = ClassicSolution81 /\ ValidGrid(sudoku)
  /\ result = sudoku

\* C6, as the specification prints it: the 78 digits in, the 78 digits out.
C6_AsPrinted ==
  (Terminated /\ sudoku = Classic78) =>
    (pc = "done" /\ result = ClassicSolution78)

\* C6, amended: for the classic puzzle with its last row complete (000080079),
\* solve returns the classic solution with its last row complete (345286179).
C6_Classic ==
  (Terminated /\ sudoku = Classic81) =>
    (pc = "done" /\ result = ClassicSolution81)

\* The classic puzzle solved.
C6_Witness == Solved /\ sudoku = Classic81 /\ Agrees(result, Classic81)

\* C7: for 81 zeros, solve returns a full valid completion whose row 0 is
\* 1, 2, ..., 9.
C7_ZeroBoardRow0 ==
  (Terminated /\ sudoku = ZeroBoard) =>
    /\ Solved
    /\ ValidGrid(result)
    /\ \A c \in 0..(PUZZLE_SIZE - 1) : result[c] = c + 1

\* The empty board solved.
C7_Witness == Solved /\ sudoku = ZeroBoard /\ result[0] = 1

\* A valid completion g is still ahead of the search: within the current
\* domains, or within the untried part of an open choice point.
Ahead(g) ==
  \/ ~failed /\ \A i \in Cells : g[i] \in solver_vars[i]
  \/ \E k \in DOMAIN stack :
       /\ \A i \in Cells : g[i] \in stack[k].vars[i]
       /\ g[stack[k].var] # stack[k].value

\* C8: the search is complete. An input with a valid completion ends solved;
\* the search ends exhausted only when there is none; and no valid completion
\* is ever pruned or backtracked away.
C8_SearchComplete ==
  /\ (pc = "solve" /\ WellFormed(sudoku) /\ KnownCompletions(sudoku) # {})
       ~> (Solved /\ ValidGrid(result) /\ Agrees(result, sudoku))
  /\ []((pc \in {"return", "done"} /\ WellFormed(sudoku) /\ solution = EmptyList)
          => KnownCompletions(sudoku) = {})
  /\ []((pc = "next_solution" /\ WellFormed(sudoku))
          => \A g \in KnownCompletions(sudoku) : Ahead(g))

\* The choice point k was opened after a smaller value of its variable had
\* been refuted: the value is gone and no bound peer holds it.
AfterRefutation(k) ==
  \E v \in Digits :
    /\ v < stack[k].value
    /\ v \notin stack[k].vars[stack[k].var]
    /\ \A j \in PeersOf(stack[k].var) : stack[k].vars[j] # {v}

\* A solution found after a decision was refuted.
C8_Witness ==
  /\ Solved /\ WellFormed(sudoku)
  /\ result \in KnownCompletions(sudoku)
  /\ \E k \in DOMAIN stack : AfterRefutation(k)

\* C9: the constraints are 27 sections of 9 distinct cells each: the 9 rows,
\* the 9 columns and the 9 blocks; every cell is in exactly 3 of them.
C9_Groups ==
  constraints # EmptyList =>
    /\ len(constraints) = BLOCK_SIZE * PUZZLE_SIZE
    /\ \A k \in DOMAIN constraints :
         /\ len(constraints[k]) = PUZZLE_SIZE
         /\ Cardinality(Elems(constraints[k])) = PUZZLE_SIZE
    /\ \A r \in 0..(PUZZLE_SIZE - 1) :
         /\ Elems(constraints[r]) = RowGroup(r)
         /\ Elems(constraints[PUZZLE_SIZE + r]) = ColGroup(r)
    /\ {Elems(constraints[2 * PUZZLE_SIZE + b]) : b \in 0..(PUZZLE_SIZE - 1)}
         = BlockGroups
    /\ Cardinality(BlockGroups) = PUZZLE_SIZE
    /\ \A i \in Cells :
         Cardinality({k \in DOMAIN constraints : i \in Elems(constraints[k])})
           = BLOCK_SIZE

\* The constraints of an 81-digit input, built.
C9_Witness ==
  /\ pc = "find_solution" /\ len(sudoku) = CellCount
  /\ len(constraints) = BLOCK_SIZE * PUZZLE_SIZE

\* C10: a solution returned is the lexicographically smallest valid completion
\* of the input.
C10_LexSmallest ==
  (Solved /\ WellFormed(sudoku)) =>
    \A g \in KnownCompletions(sudoku) : LexLeq(result, g)

\* A puzzle with several completions, all enumerated, solved.
C10_Witness ==
  /\ Solved /\ WellFormed(sudoku)
  /\ Small(sudoku) /\ Cardinality(Completions(sudoku)) > 1
  /\ result \in Completions(sudoku)

\* Every well-formed input of the model is decided by the oracle.
OracleDecides ==
  \A s \in WellFormedPuzzles : KnownCompletions(s) # {} \/ Unsolvable(s)

====
